---- MODULE Spec2Model ----
(***************************************************************************)
(* VeilSync: the App component (src/unnamed/part_000), its log entries     *)
(* (src/unnamed/part_001) and the DataAnalyzer component                   *)
(* (src/DataAnalyzer.tsx) as a state machine.                              *)
(*                                                                         *)
(* React state is a record per component (app, analyzer).  A handler is an *)
(* operator from the state its closure saw to the state after its batched  *)
(* setState calls, applied in the order the code makes them.  An async     *)
(* function is cut at its awaits: the code between two awaits is one       *)
(* action.  Values that are null in the source are Null (strings),         *)
(* NullImage (imageData) or NullJson (analysis).                           *)
(***************************************************************************)
EXTENDS Integers, Sequences, FiniteSets, TLC

VARIABLES
    app,        \* the useState cells of App
    readers,    \* FileReaders started and not yet finished: file name -> count
    runs,       \* handleStartSync invocations suspended at an await
    timerArmed, \* inactivityTimerRef holds a live timeout
    analyzer,   \* the useState cells of the mounted DataAnalyzer, and whether it is mounted
    requests,   \* generateContent calls not yet settled
    op,         \* the handler or callback that ran last
    now,        \* Date.now()
    inactivity, \* inactivityTimerRef.current and the timeouts window.setTimeout armed for it
    storedSha,  \* sessionStorage's 'currentCommitSha'
    checks,     \* checkForUpdates invocations suspended at an await
    pollDue,    \* when the live setInterval of the update effect fires next
    fetched,    \* the sha the check resumed in the last step got, if one did
    raised      \* update notifications the last step raised

\* the clock, the timers and the update poll
tvars == <<now, inactivity, storedSha, checks, pollDue, fetched, raised>>

vars == <<app, readers, runs, timerArmed, analyzer, requests, op, now, inactivity, storedSha, checks, pollDue, fetched, raised>>

----------------------------------------------------------------------------
(* Bounds of the model *)

MaxReaders == 1     \* FileReaders in flight at once
MaxRuns == 2        \* suspended handleStartSync invocations at once
MaxRequests == 2    \* unsettled generateContent calls at once
MaxListLen == 6     \* longest tags / risks array a response carries
MaxTicks == 10      \* how far the clock runs, in ticks
MaxChecks == 2      \* update checks in flight at once

----------------------------------------------------------------------------
(* Constants of the program *)

INACTIVITY_TIMEOUT == 300000
UPDATE_CHECK_INTERVAL == 600000
REGISTRATION_DELAY == 200
TagLimit == 5
RiskLimit == 3

Null == "null"
NullImage == [url |-> <<>>, base64 |-> Null, mimeType |-> Null, name |-> Null]

\* LogStatus
LogStatus == {"pending", "success", "error", "info"}

\* const steps = [...] of handleStartSync; ${dataName} and ${dataSize} are
\* filled in by StepMsg
steps == <<
    [msg |-> "INITIALIZING PHANTOM_V RUNTIME",  delay |-> 1000, status |-> "info"],
    [msg |-> "PROCESSING DATA: ${dataName}",    delay |-> 1000, status |-> "info"],
    [msg |-> "ESTABLISHING SECURE CONNECTION",  delay |-> 1500, status |-> "info"],
    [msg |-> "ANALYZING DATA STRUCTURE",        delay |-> 1200, status |-> "info"],
    [msg |-> "ATTEMPTING KERNEL-LEVEL SYNC",    delay |-> 2000, status |-> "info"],
    [msg |-> "SYNC FAILED: ACCESS RESTRICTED.", delay |-> 800,  status |-> "error"],
    [msg |-> "FALLBACK TO PAYLOAD INJECTION",   delay |-> 1500, status |-> "info"],
    [msg |-> "SUCCESS: ${dataSize} SYNCED.",    delay |-> 1000, status |-> "success"],
    [msg |-> "SYNC COMPLETE. STANDBY.",         delay |-> 500,  status |-> "success"] >>

NumSteps == Len(steps)

\* A message is <<text, argument>>; the argument is "" for a fixed text.
StepMsg(k, dataName, dataSize) ==
    IF k = 2 THEN <<steps[k].msg, dataName>>
    ELSE IF k = 8 THEN <<steps[k].msg, dataSize>>
    ELSE <<steps[k].msg, "">>

RECURSIVE SumDelays(_)
SumDelays(k) == IF k = 0 THEN 0 ELSE SumDelays(k - 1) + REGISTRATION_DELAY + steps[k].delay

\* the time one run sleeps in total
RunDuration == SumDelays(NumSteps)

----------------------------------------------------------------------------
(* Inputs *)

\* The files a user chooses or drops: name, declared media type, content.
Files == {
    [name |-> "pic.png",   type |-> "image/png",  content |-> "iVBOR"],
    [name |-> "notes.txt", type |-> "text/plain", content |-> "hello"] }

FileNames == {f.name : f \in Files}
FileOf(n) == CHOOSE f \in Files : f.name = n

\* What a user types or pastes into the textarea.
Pastes == {"", "pp"}

\* String.prototype.length on the text contents above
StrLen(s) == CASE s = "" -> 0 [] s = "pp" -> 2 [] s = "hello" -> 5 [] OTHER -> 1

\* `${n} chars`
CharsStr(n) == CASE n = 0 -> "0 chars" [] n = 2 -> "2 chars" [] n = 5 -> "5 chars" [] OTHER -> "1 chars"

\* file.type.startsWith('image/')
IsImageType(t) == t \in {"image/png", "image/jpeg", "image/webp"}

\* FileReader.readAsDataURL: <<"data:<type>;base64", payload>>, the two sides of the comma
DataUrl(f) == <<f.type, f.content>>

\* JS truthiness of a string | null
Truthy(s) == s # Null /\ s # ""

\* a || b on string | null
OrElse(a, b) == IF Truthy(a) THEN a ELSE b

----------------------------------------------------------------------------
(* App state and the operators on it *)

\* useState<number | null>(null) of snoozeUntil
NoSnooze == -1

AppInit == [
    isAuthenticated     |-> FALSE,
    logs                |-> <<>>,
    isSyncing           |-> FALSE,
    isSessionPersistent |-> FALSE,
    fileContent         |-> Null,
    pastedContent       |-> "",
    fileName            |-> Null,
    imageData           |-> NullImage,
    syncCompleted       |-> FALSE,
    showAnalyzer        |-> FALSE,
    showUpdateModal     |-> FALSE,
    snoozeUntil         |-> NoSnooze ]

\* const hasData = !!fileContent || !!pastedContent || !!imageData
hasData(s) == Truthy(s.fileContent) \/ Truthy(s.pastedContent) \/ s.imageData # NullImage

IdsOf(entries) == {entries[i].id : i \in 1..Len(entries)}

\* every id a live closure holds, or the log holds or held when the handler began
UsedIds(s) == IdsOf(s.logs) \cup IdsOf(app.logs) \cup UNION {IdsOf(runs[i].currentLogs) : i \in 1..Len(runs)}

\* Date.now() + Math.random(): a number no entry in use bears; the least such
\* number stands for all of them
FreshId(used) == CHOOSE n \in 1..(Cardinality(used) + 1) :
                    n \notin used /\ \A m \in 1..(n - 1) : m \in used

\* addLog: setLogs(prevLogs => [...prevLogs, newLog])
addLog(s, message, status) ==
    [s EXCEPT !.logs = Append(@, [id |-> FreshId(UsedIds(s)), message |-> message, status |-> status])]

\* setLogs(value)
setLogs(s, value) == [s EXCEPT !.logs = value]

\* resetInput with a setLogs([]) added
resetInputClearsLogs(s) ==
    [s EXCEPT !.fileContent = Null,
              !.fileName = Null,
              !.imageData = NullImage,
              !.pastedContent = "",
              !.syncCompleted = FALSE,
              !.showAnalyzer = FALSE,
              !.logs = <<>>]

resetInput(s) ==
    [s EXCEPT !.fileContent = Null,
              !.fileName = Null,
              !.imageData = NullImage,
              !.pastedContent = "",
              !.syncCompleted = FALSE,
              !.showAnalyzer = FALSE]

\* handleLogout
handleLogout(s) == [s EXCEPT !.isAuthenticated = FALSE]

\* handleLogin
handleLogin(s) ==
    resetInput(
        addLog(setLogs([s EXCEPT !.isAuthenticated = TRUE], <<>>),
               <<"Authentication successful. VeilSync protocol engaged.", "">>, "success"))

\* handleFileRead up to the call that starts the FileReader
handleFileRead(s, file) ==
    LET cleared == setLogs(resetInput(s), <<>>) IN
    IF IsImageType(file.type) THEN cleared
    ELSE [cleared EXCEPT !.fileName = file.name]

\* reader.onload of handleFileRead, for the reader started on `file`
readerOnLoad(s, file) ==
    IF IsImageType(file.type)
    THEN [s EXCEPT !.imageData = [url      |-> DataUrl(file),
                                  base64   |-> DataUrl(file)[2],
                                  mimeType |-> file.type,
                                  name     |-> file.name]]
    ELSE [s EXCEPT !.fileContent = file.content]

\* reader.onerror of handleFileRead
readerOnError(s, file) ==
    resetInput(
        addLog(s,
               <<IF IsImageType(file.type) THEN "Error reading image file: ${file.name}"
                                           ELSE "Error reading text file: ${file.name}",
                 file.name>>,
               "error"))

\* the textarea's onChange
textareaOnChange(s, value) ==
    [setLogs(resetInput(s), <<>>) EXCEPT !.pastedContent = value]

\* the textarea's disabled attribute
textareaDisabled(s) == s.isSyncing \/ s.fileName # Null \/ s.imageData # NullImage

\* the disabled attribute without its (syncCompleted && isSessionPersistent)
startSyncDisabledNoPersistence(s) == s.isSyncing \/ ~hasData(s)

\* the Start Sync button's disabled attribute
startSyncDisabled(s) ==
    s.isSyncing \/ ~hasData(s) \/ (s.syncCompleted /\ s.isSessionPersistent)

\* startSyncRejected without the isSyncing test
startSyncRejectedNoBusy(s) ==
    ~Truthy(s.fileContent) /\ ~Truthy(s.pastedContent) /\ s.imageData = NullImage

\* startSyncRejected without the payload test
startSyncRejectedNoPayloadTest(s) == s.isSyncing

\* the first line of handleStartSync: the call returns at once
startSyncRejected(s) ==
    s.isSyncing \/ (~Truthy(s.fileContent) /\ ~Truthy(s.pastedContent) /\ s.imageData = NullImage)

\* const dataName = imageData?.name || fileName || 'Pasted Content'
dataNameOf(s) ==
    IF s.imageData # NullImage /\ Truthy(s.imageData.name) THEN s.imageData.name
    ELSE OrElse(s.fileName, "Pasted Content")

\* const dataSize = imageData ? 'Image Data' : `${fileContent?.length || pastedContent.length} chars`
dataSizeOf(s) ==
    IF s.imageData # NullImage THEN "Image Data"
    ELSE CharsStr(IF s.fileContent # Null /\ StrLen(s.fileContent) # 0
                  THEN StrLen(s.fileContent) ELSE StrLen(s.pastedContent))

\* the loop body up to sleep(200): push the pending entry of stage k
pushPending(currentLogs, k, id, dataName, dataSize) ==
    Append(currentLogs, [id |-> id, message |-> StepMsg(k, dataName, dataSize), status |-> "pending"])

\* mapStatus without the id test: every entry takes the status
mapStatusAll(currentLogs, id, status) ==
    [i \in 1..Len(currentLogs) |-> [currentLogs[i] EXCEPT !.status = status]]

\* currentLogs.map(l => l.id === pendingLog.id ? {...l, status: step.status} : l)
mapStatus(currentLogs, id, status) ==
    [i \in 1..Len(currentLogs) |->
        IF currentLogs[i].id = id THEN [currentLogs[i] EXCEPT !.status = status]
        ELSE currentLogs[i]]

\* the lines after the loop with setIsSyncing(false) left out
syncFinishStillSyncing(s, persistent) ==
    IF persistent
    THEN addLog([s EXCEPT !.syncCompleted = TRUE], <<"SESSION PERSISTENCE ENABLED.", "">>, "info")
    ELSE addLog([s EXCEPT !.syncCompleted = TRUE], <<"SESSION PERSISTENCE DISABLED. CLEARING INPUT ON NEXT ACTION.", "">>, "info")

\* the lines of handleStartSync after the loop
syncFinish(s, persistent) ==
    LET done == [s EXCEPT !.syncCompleted = TRUE]
        logged == IF persistent
                  THEN addLog(done, <<"SESSION PERSISTENCE ENABLED.", "">>, "info")
                  ELSE addLog(done, <<"SESSION PERSISTENCE DISABLED. CLEARING INPUT ON NEXT ACTION.", "">>, "info")
    IN [logged EXCEPT !.isSyncing = FALSE]

----------------------------------------------------------------------------
(* DataAnalyzer: the parsed response and the component state *)

\* A parsed JSON value, as far as the component looks at it.  kind is "null",
\* "primitive" (a truthy number, string or boolean) or "object"; a string
\* field is "absent", "string" or "other"; an array field is Absent, NotArray
\* or the array's length.
Absent == -1
NotArray == -2

NullJson == [kind |-> "null", description |-> "absent", tags |-> Absent, anomaly |-> "absent",
             dataType |-> "absent", summary |-> "absent", risks |-> Absent]

Primitive == [NullJson EXCEPT !.kind = "primitive"]

EmptyObject == [NullJson EXCEPT !.kind = "object"]

\* an object with the three fields of the image schema, n tags
ImageJson(n) == [EmptyObject EXCEPT !.description = "string", !.tags = n, !.anomaly = "string"]

\* an object with the three fields of the text schema, n risks
TextJson(n) == [EmptyObject EXCEPT !.dataType = "string", !.summary = "string", !.risks = n]

ListLens == {0, RiskLimit, RiskLimit + 1, TagLimit, MaxListLen}

\* The values a response body can parse to
JsonValues ==
    {NullJson, Primitive, EmptyObject}
    \cup {ImageJson(n) : n \in ListLens}
    \cup {TextJson(n) : n \in ListLens}
    \cup {[ImageJson(0) EXCEPT !.tags = Absent],
          [ImageJson(0) EXCEPT !.tags = NotArray],
          [ImageJson(1) EXCEPT !.description = "other"],
          [TextJson(0) EXCEPT !.risks = Absent],
          [TextJson(1) EXCEPT !.summary = "absent"]}

\* What a generateContent call can settle to: the promise rejects (network
\* failure, non-success status), or it resolves with response.text undefined,
\* not JSON, or the text of a JSON value.
Outcomes ==
    {[settled |-> "rejected", text |-> "none", json |-> NullJson],
     [settled |-> "resolved", text |-> "undefined", json |-> NullJson],
     [settled |-> "resolved", text |-> "malformed", json |-> NullJson]}
    \cup {[settled |-> "resolved", text |-> "json", json |-> v] : v \in JsonValues}

\* One outcome of each kind, for the specifications of the whole App: a
\* rejection, a body that is not JSON, a text result and an image result
AppOutcomes ==
    {o \in Outcomes : o.text \in {"none", "malformed"} \/ (o.text = "json" /\ o.json \in {TextJson(0), ImageJson(0)})}

\* JSON.parse(response.text) throws
parseThrows(outcome) == outcome.text # "json"

\* JSON.parse(response.text)
parse(outcome) == outcome.json

\* isImageAnalysis
isImageAnalysis(result) ==
    result.kind # "null" /\ result.description = "string" /\ result.tags >= 0

ErrorMsg == "Analysis failed. The AI core might be offline or the data payload is corrupted."

AnalyzerInit == [mounted |-> FALSE, isLoading |-> FALSE, analysis |-> NullJson, error |-> Null]

\* the props App passes: textContent={fileContent || pastedContent} imageData={imageData}
propsOf(s) == [textContent |-> OrElse(s.fileContent, s.pastedContent), imageData |-> s.imageData]

\* the opening of handleAnalyze without its setError(null)
analyzeBeginKeepsError(a) == [a EXCEPT !.isLoading = TRUE, !.analysis = NullJson]

\* the three setState calls that open handleAnalyze
analyzeBegin(a) == [a EXCEPT !.isLoading = TRUE, !.error = Null, !.analysis = NullJson]

\* requestVariant with the text branch taken for any non-null textContent
requestVariantNullTest(props) ==
    IF props.imageData # NullImage THEN "image"
    ELSE IF props.textContent # Null THEN "text"
    ELSE "none"

\* requestVariant with the two branches in the other order
requestVariantTextFirst(props) ==
    IF Truthy(props.textContent) THEN "text"
    ELSE IF props.imageData # NullImage THEN "image"
    ELSE "none"

\* the request handleAnalyze issues for these props: "image", "text", or
\* "none" when it throws instead
requestVariant(props) ==
    IF props.imageData # NullImage THEN "image"
    ELSE IF Truthy(props.textContent) THEN "text"
    ELSE "none"

\* analyzeFailed without the finally block
analyzeFailedNoFinally(a) == [a EXCEPT !.error = ErrorMsg]

\* catch (e) { setError(...) } finally { setIsLoading(false) }
analyzeFailed(a) == [a EXCEPT !.error = ErrorMsg, !.isLoading = FALSE]

\* setAnalysis(resultJson) ... finally { setIsLoading(false) }
analyzeSucceeded(a, resultJson) == [a EXCEPT !.analysis = resultJson, !.isLoading = FALSE]

\* handleAnalyze after its await, for the outcome of the request
analyzeSettle(a, outcome) ==
    IF outcome.settled = "rejected" \/ parseThrows(outcome) THEN analyzeFailed(a)
    ELSE analyzeSucceeded(a, parse(outcome))

\* renderContent shows a button bound to handleAnalyze: the retry button of
\* the error panel, or the button of the initial panel
analyzeButtonShown(a) ==
    /\ ~a.isLoading
    /\ (a.error # Null \/ a.analysis.kind = "null")

\* what renderContent does with the state: a panel, or a TypeError thrown
\* while rendering (analysis.tags.map, textAnalysis.risks.length)
renderContent(a) ==
    IF a.isLoading THEN "loading"
    ELSE IF a.error # Null THEN "error"
    ELSE IF a.analysis.kind # "null" THEN
        IF isImageAnalysis(a.analysis) THEN "image"
        ELSE IF a.analysis.kind = "object" /\ a.analysis.risks # Absent THEN "text"
        ELSE "throws"
    ELSE "initial"

----------------------------------------------------------------------------
(* The clock, the inactivity timer and the update check *)

\* The clock advances by half the inactivity timeout, so that a user event
\* can fall strictly between the arming of a timer and its expiry.
TickMs == INACTIVITY_TIMEOUT \div 2

MaxTime == MaxTicks * TickMs

\* useRef<number | null>(null) of inactivityTimerRef
NoTimer == 0

InactivityInit == [ref |-> NoTimer, armed |-> {}]

\* clearTimeout(inactivityTimerRef.current), guarded by if (inactivityTimerRef.current)
clearInactivityTimer(t) ==
    [t EXCEPT !.armed = IF t.ref # NoTimer THEN {x \in @ : x.id # t.ref} ELSE @]

\* resetInactivityTimer with the clearTimeout left out
resetInactivityTimerNoClear(t, time) ==
    LET id == FreshId({x.id : x \in t.armed} \cup {t.ref})
    IN [ref |-> id, armed |-> t.armed \cup {[id |-> id, due |-> time + INACTIVITY_TIMEOUT]}]

\* resetInactivityTimer at clock value time; setTimeout returns an id other
\* than those of the live timeouts and the one just cleared
resetInactivityTimer(t, time) ==
    LET kept == clearInactivityTimer(t).armed
        id == FreshId({x.id : x \in kept} \cup {t.ref})
    IN [ref |-> id, armed |-> kept \cup {[id |-> id, due |-> time + INACTIVITY_TIMEOUT]}]

\* the inactivity effect and its cleanup, run when isAuthenticated changes
\* from was to is
inactivityEffectRun(t, was, is, time) ==
    IF was = is THEN t
    ELSE IF is THEN resetInactivityTimer(t, time)
    ELSE clearInactivityTimer(t)

\* the revisions the watched branch can be at
Shas == {"a", "b"}

\* what a check's fetch comes back with: a rejected fetch or a response that
\* is not ok, or a commit and its sha
CheckOutcomes == {[ok |-> FALSE, sha |-> Null]} \cup {[ok |-> TRUE, sha |-> x] : x \in Shas}

\* the minutes the update modal offers to snooze for
SnoozeMinutes == {5, 10}

\* snoozeUntil && Date.now() < snoozeUntil
snoozed(s, time) == s.snoozeUntil # NoSnooze /\ s.snoozeUntil # 0 /\ time < s.snoozeUntil

\* checkForUpdates up to its await: the number of checks in flight after it
checkBegin(n, s, time) == IF snoozed(s, time) THEN n ELSE n + 1

\* checkForUpdates after its awaits, with a catch block that forgets the
\* stored sha
checkResumeForgetsOnFailure(s, stored, outcome) ==
    IF ~outcome.ok THEN [app |-> s, stored |-> Null, raised |-> 0]
    ELSE IF ~Truthy(stored) THEN [app |-> s, stored |-> outcome.sha, raised |-> 0]
    ELSE IF stored # outcome.sha THEN [app |-> [s EXCEPT !.showUpdateModal = TRUE], stored |-> stored, raised |-> 1]
    ELSE [app |-> s, stored |-> stored, raised |-> 0]

\* checkForUpdates after its awaits, notifying whenever a commit came back
checkResumeAlwaysNotify(s, stored, outcome) ==
    IF ~outcome.ok THEN [app |-> s, stored |-> stored, raised |-> 0]
    ELSE [app |-> [s EXCEPT !.showUpdateModal = TRUE],
          stored |-> IF ~Truthy(stored) THEN outcome.sha ELSE stored,
          raised |-> 1]

\* checkForUpdates after its awaits, storing the fetched sha when it notifies
checkResumeAdoptsSha(s, stored, outcome) ==
    IF ~outcome.ok THEN [app |-> s, stored |-> stored, raised |-> 0]
    ELSE IF ~Truthy(stored) THEN [app |-> s, stored |-> outcome.sha, raised |-> 0]
    ELSE IF stored # outcome.sha THEN [app |-> [s EXCEPT !.showUpdateModal = TRUE], stored |-> outcome.sha, raised |-> 1]
    ELSE [app |-> s, stored |-> stored, raised |-> 0]

\* checkForUpdates after its awaits: App's state, the stored sha and the
\* number of notifications raised
checkResume(s, stored, outcome) ==
    IF ~outcome.ok THEN [app |-> s, stored |-> stored, raised |-> 0]
    ELSE IF ~Truthy(stored) THEN [app |-> s, stored |-> outcome.sha, raised |-> 0]
    ELSE IF stored # outcome.sha THEN [app |-> [s EXCEPT !.showUpdateModal = TRUE], stored |-> stored, raised |-> 1]
    ELSE [app |-> s, stored |-> stored, raised |-> 0]

\* handleSnooze(minutes) at clock value time
handleSnooze(s, minutes, time) ==
    [s EXCEPT !.snoozeUntil = time + minutes * 60 * 1000, !.showUpdateModal = FALSE]

\* {showUpdateModal && (<UpdateModal .../>)} inside the tree App returns when
\* isAuthenticated
updateModalShown(s) == s.isAuthenticated /\ s.showUpdateModal

\* the state once App has mounted: the update effect has called
\* checkForUpdates and set its interval
TimersInit ==
    /\ now = 0
    /\ inactivity = InactivityInit
    /\ storedSha = Null
    /\ checks = 1
    /\ pollDue = UPDATE_CHECK_INTERVAL
    /\ fetched = Null
    /\ raised = 0

----------------------------------------------------------------------------
(* Rendering: what follows every change of App's state *)

\* {showAnalyzer && hasData && (<DataAnalyzer .../>)}
\* inside the tree App returns when isAuthenticated (otherwise <LoginScreen/>)
analyzerMounted(s) == s.isAuthenticated /\ s.showAnalyzer /\ hasData(s)

\* An unmounted component's setState calls do nothing: its pending requests
\* stay in flight but no longer reach a component.
Orphaned(reqs) == [i \in 1..Len(reqs) |-> [reqs[i] EXCEPT !.live = FALSE]]

\* the inactivity effect: armed while isAuthenticated, cleared by its cleanup
inactivityEffect(s) == s.isAuthenticated

\* App's state becomes s after handler `name`; React renders, mounts or
\* unmounts the DataAnalyzer and runs the effects.
Render(s, name) ==
    /\ app' = s
    /\ analyzer' = IF analyzerMounted(s) THEN [analyzer EXCEPT !.mounted = TRUE] ELSE AnalyzerInit
    /\ requests' = IF analyzerMounted(s) THEN requests ELSE Orphaned(requests)
    /\ timerArmed' = inactivityEffect(s)
    /\ op' = name

\* a render in which no timer and no update check takes part
Commit(s, name) ==
    /\ Render(s, name)
    /\ UNCHANGED tvars

NumReaders == LET RECURSIVE Sum(_)
                  Sum(S) == IF S = {} THEN 0
                            ELSE LET n == CHOOSE n \in S : TRUE IN readers[n] + Sum(S \ {n})
              IN Sum(FileNames)

----------------------------------------------------------------------------
(* Actions of App *)

Init ==
    /\ app = AppInit
    /\ readers = [n \in FileNames |-> 0]
    /\ runs = <<>>
    /\ timerArmed = FALSE
    /\ analyzer = AnalyzerInit
    /\ requests = <<>>
    /\ op = "init"
    /\ TimersInit

\* LoginScreen's onLogin
Login ==
    /\ ~app.isAuthenticated
    /\ Commit(handleLogin(app), "handleLogin")
    /\ UNCHANGED <<readers, runs>>

\* the inactivity timeout fires.  Starting a run is a user event, which
\* re-arms the timer, so the timer outlasts the run unless the run sleeps
\* longer than the timeout.
InactivityTimeout ==
    /\ timerArmed
    /\ runs = <<>> \/ INACTIVITY_TIMEOUT <= RunDuration
    /\ Commit(handleLogout(app), "handleLogout")
    /\ UNCHANGED <<readers, runs>>

\* handleFileRead(file)
StartRead(file, name) ==
    /\ NumReaders < MaxReaders
    /\ readers' = [readers EXCEPT ![file.name] = @ + 1]
    /\ Commit(handleFileRead(app, file), name)
    /\ UNCHANGED runs

\* handleFileChange: the file input (disabled={isSyncing}) delivers a file
ChooseFile ==
    /\ app.isAuthenticated
    /\ ~app.isSyncing
    /\ \E file \in Files : StartRead(file, "handleFileChange")

\* handleDrop: a file is dropped on the drop zone
DropFile ==
    /\ app.isAuthenticated
    /\ IF app.isSyncing
       THEN Commit(app, "handleDrop") /\ UNCHANGED <<readers, runs>>
       ELSE \E file \in Files : StartRead(file, "handleDrop")

\* a FileReader finishes: reader.onload
ReaderLoad ==
    \E n \in FileNames :
        /\ readers[n] > 0
        /\ readers' = [readers EXCEPT ![n] = @ - 1]
        /\ Commit(readerOnLoad(app, FileOf(n)), "reader.onload")
        /\ UNCHANGED runs

\* a FileReader fails: reader.onerror
ReaderError ==
    \E n \in FileNames :
        /\ readers[n] > 0
        /\ readers' = [readers EXCEPT ![n] = @ - 1]
        /\ Commit(readerOnError(app, FileOf(n)), "reader.onerror")
        /\ UNCHANGED runs

\* the user edits the textarea
EditPaste ==
    /\ app.isAuthenticated
    /\ ~textareaDisabled(app)
    /\ \E value \in Pastes :
        /\ value # app.pastedContent
        /\ Commit(textareaOnChange(app, value), "textarea.onChange")
    /\ UNCHANGED <<readers, runs>>

\* the Clear Image button (shown when imageData, disabled={isSyncing})
ClearImage ==
    /\ app.isAuthenticated
    /\ app.imageData # NullImage
    /\ ~app.isSyncing
    /\ Commit(resetInput(app), "clearImage")
    /\ UNCHANGED <<readers, runs>>

\* the Clear File button (shown when fileName and no imageData, disabled={isSyncing})
ClearFile ==
    /\ app.isAuthenticated
    /\ app.imageData = NullImage
    /\ app.fileName # Null
    /\ ~app.isSyncing
    /\ Commit(resetInput(app), "clearFile")
    /\ UNCHANGED <<readers, runs>>

\* the ToggleSwitch (disabled={isSyncing})
TogglePersistent ==
    /\ app.isAuthenticated
    /\ ~app.isSyncing
    /\ Commit([app EXCEPT !.isSessionPersistent = ~@], "setIsSessionPersistent")
    /\ UNCHANGED <<readers, runs>>

\* handleStartSync up to its first await: the guard, the three setState
\* calls, and the first pass of the loop up to sleep(200)
handleStartSync ==
    IF startSyncRejected(app)
    THEN Commit(app, "handleStartSync") /\ UNCHANGED <<readers, runs>>
    ELSE
        /\ Len(runs) < MaxRuns
        /\ LET begun == setLogs([app EXCEPT !.isSyncing = TRUE, !.syncCompleted = FALSE], <<>>)
               id == FreshId(UsedIds(begun))
               dataName == dataNameOf(app)
               dataSize == dataSizeOf(app)
               currentLogs == pushPending(<<>>, 1, id, dataName, dataSize)
           IN /\ runs' = Append(runs, [stage       |-> 1,
                                       phase       |-> "registering",
                                       currentLogs |-> currentLogs,
                                       pendingId   |-> id,
                                       dataName    |-> dataName,
                                       dataSize    |-> dataSize,
                                       persistent  |-> app.isSessionPersistent])
              /\ Commit(setLogs(begun, currentLogs), "handleStartSync")
        /\ UNCHANGED readers

\* the Start Sync button is clicked
ClickStartSync ==
    /\ app.isAuthenticated
    /\ ~startSyncDisabled(app)
    /\ handleStartSync

RemoveAt(seq, i) == [j \in 1..(Len(seq) - 1) |-> IF j < i THEN seq[j] ELSE seq[j + 1]]

\* sleep(200) of stage k resolves: the entry takes the stage's status
StageCommit(i) ==
    LET run == runs[i]
        currentLogs == mapStatus(run.currentLogs, run.pendingId, steps[run.stage].status)
    IN /\ run.phase = "registering"
       /\ runs' = [runs EXCEPT ![i] = [run EXCEPT !.phase = "delaying", !.currentLogs = currentLogs]]
       /\ Commit(setLogs(app, currentLogs), "stage.commit")
       /\ UNCHANGED readers

\* sleep(step.delay) of stage k < 9 resolves: the next pass of the loop
StageNext(i) ==
    LET run == runs[i]
        id == FreshId(UsedIds(app))
        currentLogs == pushPending(run.currentLogs, run.stage + 1, id, run.dataName, run.dataSize)
    IN /\ run.phase = "delaying"
       /\ run.stage < NumSteps
       /\ runs' = [runs EXCEPT ![i] = [run EXCEPT !.stage = @ + 1,
                                                  !.phase = "registering",
                                                  !.pendingId = id,
                                                  !.currentLogs = currentLogs]]
       /\ Commit(setLogs(app, currentLogs), "stage.pending")
       /\ UNCHANGED readers

\* sleep(step.delay) of the last stage resolves: the loop ends
RunFinish(i) ==
    LET run == runs[i]
    IN /\ run.phase = "delaying"
       /\ run.stage = NumSteps
       /\ runs' = RemoveAt(runs, i)
       /\ Commit(syncFinish(app, run.persistent), "run.finish")
       /\ UNCHANGED readers

RunStep == \E i \in 1..Len(runs) : StageCommit(i) \/ StageNext(i) \/ RunFinish(i)

\* the Analyze Synced Data button (shown when syncCompleted && hasData, disabled={isSyncing})
OpenAnalyzer ==
    /\ app.isAuthenticated
    /\ app.syncCompleted /\ hasData(app)
    /\ ~app.isSyncing
    /\ Commit([app EXCEPT !.showAnalyzer = TRUE], "openAnalyzer")
    /\ UNCHANGED <<readers, runs>>

\* DataAnalyzer's onClose
CloseAnalyzer ==
    /\ app.isAuthenticated
    /\ analyzer.mounted
    /\ Commit([app EXCEPT !.showAnalyzer = FALSE], "onClose")
    /\ UNCHANGED <<readers, runs>>

----------------------------------------------------------------------------
(* Actions of DataAnalyzer *)

\* handleAnalyze up to its await, or to its end when it throws before one
handleAnalyze ==
    LET props == propsOf(app)
        variant == requestVariant(props)
    IN /\ IF variant = "none"
          THEN /\ analyzer' = analyzeFailed(analyzeBegin(analyzer))
               /\ requests' = requests
          ELSE /\ Len(requests) < MaxRequests
               /\ analyzer' = analyzeBegin(analyzer)
               /\ requests' = Append(requests, [variant |-> variant, live |-> TRUE])
       /\ op' = "handleAnalyze"
       /\ UNCHANGED <<app, readers, runs, timerArmed>>
       /\ UNCHANGED tvars

\* the button of the initial panel or of the error panel is clicked
ClickAnalyze ==
    /\ analyzer.mounted
    /\ analyzeButtonShown(analyzer)
    /\ handleAnalyze

\* a generateContent call settles and handleAnalyze resumes
Settle(outcomes) ==
    \E i \in 1..Len(requests), outcome \in outcomes :
        /\ analyzer' = IF requests[i].live THEN analyzeSettle(analyzer, outcome) ELSE analyzer
        /\ requests' = RemoveAt(requests, i)
        /\ op' = IF ~requests[i].live THEN "settle.unmounted"
                 ELSE IF outcome.settled = "rejected" \/ parseThrows(outcome) THEN "settle.failed"
                 ELSE "settle.parsed"
        /\ UNCHANGED <<app, readers, runs, timerArmed>>
        /\ UNCHANGED tvars

----------------------------------------------------------------------------
(* The program as its user drives it *)

Next ==
    \/ Login
    \/ InactivityTimeout
    \/ ChooseFile
    \/ DropFile
    \/ ReaderLoad
    \/ ReaderError
    \/ EditPaste
    \/ ClearImage
    \/ ClearFile
    \/ TogglePersistent
    \/ ClickStartSync
    \/ RunStep
    \/ OpenAnalyzer
    \/ CloseAnalyzer
    \/ ClickAnalyze
    \/ Settle(AppOutcomes)

Spec == Init /\ [][Next]_vars

----------------------------------------------------------------------------
(* The handlers called whatever the controls' disabled attributes say *)

CallStartSync ==
    /\ app.isAuthenticated
    /\ handleStartSync

NextCalls == Next \/ CallStartSync

\* the program when its timers fire: a sleep() of a suspended run resolves
SpecLive == Init /\ [][Next]_vars /\ WF_vars(RunStep)

SpecCalls == Init /\ [][NextCalls]_vars

----------------------------------------------------------------------------
(* DataAnalyzer on its own, mounted with any props *)

InitAnalyzer ==
    /\ \E fc \in {Null, "", "hello"}, pc \in Pastes, img \in {NullImage, readerOnLoad(AppInit, FileOf("pic.png")).imageData} :
          app = [AppInit EXCEPT !.isAuthenticated = TRUE, !.syncCompleted = TRUE, !.showAnalyzer = TRUE,
                                !.fileContent = fc, !.pastedContent = pc, !.imageData = img]
    /\ readers = [n \in FileNames |-> 0]
    /\ runs = <<>>
    /\ timerArmed = TRUE
    /\ analyzer = [AnalyzerInit EXCEPT !.mounted = TRUE]
    /\ requests = <<>>
    /\ op = "init"
    /\ now = 0
    /\ inactivity = resetInactivityTimer(InactivityInit, 0)
    /\ storedSha = Null
    /\ checks = 1
    /\ pollDue = UPDATE_CHECK_INTERVAL
    /\ fetched = Null
    /\ raised = 0

NextAnalyzer == ClickAnalyze \/ Settle(Outcomes)

SpecAnalyzer == InitAnalyzer /\ [][NextAnalyzer]_vars

----------------------------------------------------------------------------
(* App with its clock: the inactivity timer and the update check *)

\* LoginScreen's onLogin; the inactivity effect arms the timer
TimedLogin ==
    /\ ~app.isAuthenticated
    /\ LET s == handleLogin(app)
       IN /\ Render(s, "handleLogin")
          /\ inactivity' = inactivityEffectRun(inactivity, app.isAuthenticated, s.isAuthenticated, now)
    /\ fetched' = Null
    /\ raised' = 0
    /\ UNCHANGED <<readers, runs, now, storedSha, checks, pollDue>>

\* mousemove, mousedown, keypress, scroll or touchstart on window: eventHandler
Activity ==
    /\ app.isAuthenticated
    /\ inactivity' = resetInactivityTimer(inactivity, now)
    /\ Render(app, "eventHandler")
    /\ fetched' = Null
    /\ raised' = 0
    /\ UNCHANGED <<readers, runs, now, storedSha, checks, pollDue>>

\* an inactivity timeout expires: () => handleLogout(), then the effect's cleanup
TimeoutFire ==
    \E t \in inactivity.armed :
        /\ t.due <= now
        /\ LET s == handleLogout(app)
               fired == [inactivity EXCEPT !.armed = @ \ {t}]
           IN /\ Render(s, "handleLogout")
              /\ inactivity' = inactivityEffectRun(fired, app.isAuthenticated, s.isAuthenticated, now)
        /\ fetched' = Null
        /\ raised' = 0
        /\ UNCHANGED <<readers, runs, now, storedSha, checks, pollDue>>

\* time passes; a timer that is due fires before it does
Tick ==
    /\ now < MaxTime
    /\ \A t \in inactivity.armed : now < t.due
    /\ now < pollDue
    /\ now' = now + TickMs
    /\ op' = "tick"
    /\ fetched' = Null
    /\ raised' = 0
    /\ UNCHANGED <<app, readers, runs, timerArmed, analyzer, requests, inactivity, storedSha, checks, pollDue>>

\* the interval of the update effect fires: checkForUpdates up to its await
PollFire ==
    /\ pollDue <= now
    /\ checkBegin(checks, app, now) <= MaxChecks
    /\ checks' = checkBegin(checks, app, now)
    /\ pollDue' = pollDue + UPDATE_CHECK_INTERVAL
    /\ op' = IF snoozed(app, now) THEN "checkForUpdates.snoozed" ELSE "checkForUpdates"
    /\ fetched' = Null
    /\ raised' = 0
    /\ UNCHANGED <<app, readers, runs, timerArmed, analyzer, requests, now, inactivity, storedSha>>

\* the fetch of a check in flight settles and checkForUpdates resumes
CheckRespond ==
    \E outcome \in CheckOutcomes :
        /\ checks > 0
        /\ checks' = checks - 1
        /\ LET r == checkResume(app, storedSha, outcome)
           IN /\ Render(r.app, IF outcome.ok THEN "checkForUpdates.resumed" ELSE "checkForUpdates.failed")
              /\ storedSha' = r.stored
              /\ raised' = r.raised
        /\ fetched' = outcome.sha
        /\ UNCHANGED <<readers, runs, now, inactivity, pollDue>>

\* UpdateModal's onSnooze; a changed snoozeUntil re-runs the update effect:
\* clearInterval, checkForUpdates(), setInterval
Snooze ==
    \E minutes \in SnoozeMinutes :
        /\ updateModalShown(app)
        /\ LET s == handleSnooze(app, minutes, now)
               rerun == s.snoozeUntil # app.snoozeUntil
           IN /\ Render(s, "handleSnooze")
              /\ checks' = IF rerun THEN checkBegin(checks, s, now) ELSE checks
              /\ checks' <= MaxChecks
              /\ pollDue' = IF rerun THEN now + UPDATE_CHECK_INTERVAL ELSE pollDue
        /\ fetched' = Null
        /\ raised' = 0
        /\ UNCHANGED <<readers, runs, now, inactivity, storedSha>>

\* UpdateModal's onClose
DismissUpdate ==
    /\ updateModalShown(app)
    /\ Render([app EXCEPT !.showUpdateModal = FALSE], "updateModal.onClose")
    /\ fetched' = Null
    /\ raised' = 0
    /\ UNCHANGED <<readers, runs, now, inactivity, storedSha, checks, pollDue>>

\* UpdateModal's onUpdate: window.location.reload().  The page starts over;
\* sessionStorage outlives it, timers and pending callbacks do not.
UpdateNow ==
    /\ updateModalShown(app)
    /\ app' = AppInit
    /\ readers' = [n \in FileNames |-> 0]
    /\ runs' = <<>>
    /\ timerArmed' = FALSE
    /\ analyzer' = AnalyzerInit
    /\ requests' = <<>>
    /\ op' = "handleUpdateNow"
    /\ inactivity' = InactivityInit
    /\ checks' = 1
    /\ pollDue' = now + UPDATE_CHECK_INTERVAL
    /\ fetched' = Null
    /\ raised' = 0
    /\ UNCHANGED <<now, storedSha>>

NextTimers ==
    \/ TimedLogin
    \/ Activity
    \/ TimeoutFire
    \/ Tick
    \/ PollFire
    \/ CheckRespond
    \/ Snooze
    \/ DismissUpdate
    \/ UpdateNow

SpecTimers == Init /\ [][NextTimers]_vars

----------------------------------------------------------------------------
(* What the claims speak of *)

\* the message text and the status of each entry, in order
Shape(entries) == [j \in 1..Len(entries) |-> <<entries[j].message, entries[j].status>>]

\* the entries the script prescribes once stage k is pending ("registering")
\* or terminal ("delaying")
ScriptShape(k, phase, dataName, dataSize) ==
    [j \in 1..k |-> <<StepMsg(j, dataName, dataSize),
                      IF j = k /\ phase = "registering" THEN "pending" ELSE steps[j].status>>]

DistinctIds(entries) == \A i, j \in 1..Len(entries) : entries[i].id = entries[j].id => i = j

StageOps == {"handleStartSync", "stage.commit", "stage.pending"}

PersistenceMsgs == {"SESSION PERSISTENCE ENABLED.",
                    "SESSION PERSISTENCE DISABLED. CLEARING INPUT ON NEXT ACTION."}

\* no payload as handleAnalyze sees it
NoAnalyzerPayload == app.imageData = NullImage /\ propsOf(app).textContent \in {Null, ""}

----------------------------------------------------------------------------
(* C1 *)

\* C1: every step of a run leaves in the log exactly the entries of the
\* script up to the current stage, in script order, the earlier ones with
\* their scripted terminal status and the current one pending or terminal;
\* a run moves from a stage only to the same stage made terminal and then to
\* the next stage, whatever the terminal status was, and ends only after the
\* last stage is terminal.
C1_EveryStageInOrder ==
    [][ /\ (op' \in StageOps /\ runs' # runs) =>
              /\ Len(runs') = 1
              /\ Shape(app'.logs) = ScriptShape(runs'[1].stage, runs'[1].phase,
                                                runs'[1].dataName, runs'[1].dataSize)
              /\ DistinctIds(app'.logs)
        /\ (Len(runs) = 0 /\ Len(runs') = 1) =>
              /\ hasData(app)
              /\ runs'[1].stage = 1 /\ runs'[1].phase = "registering"
        /\ (Len(runs) = 1 /\ Len(runs') = 1 /\ runs' # runs) =>
              \/ /\ runs[1].phase = "registering" /\ runs'[1].phase = "delaying"
                 /\ runs'[1].stage = runs[1].stage
              \/ /\ runs[1].phase = "delaying" /\ runs'[1].phase = "registering"
                 /\ runs'[1].stage = runs[1].stage + 1
        /\ (Len(runs) = 1 /\ Len(runs') = 0) =>
              /\ runs[1].stage = NumSteps /\ runs[1].phase = "delaying"
      ]_vars

\* C1 witness: the last stage has just become terminal, and the log shows all
\* nine stages, the sixth with status error
C1_Witness ==
    /\ op = "stage.commit"
    /\ Len(runs) = 1 /\ runs[1].stage = NumSteps
    /\ Len(app.logs) = NumSteps
    /\ app.logs[6].status = "error"
    /\ app.logs[NumSteps].status = "success"

----------------------------------------------------------------------------
(* C2 *)

\* C2: a call of handleStartSync while isSyncing changes neither App's state
\* (the log, isSyncing, syncCompleted) nor the suspended run, and there is
\* never more than one run suspended.
C2_RejectedWhileSyncing ==
    [][ /\ (app.isSyncing /\ op' = "handleStartSync") => (app' = app /\ runs' = runs)
        /\ Len(runs') <= 1
      ]_vars

\* C2 witness: handleStartSync was the last call, made while a run was past
\* its first stage
C2_Witness ==
    /\ op = "handleStartSync"
    /\ app.isSyncing
    /\ Len(runs) = 1 /\ runs[1].stage > 1

----------------------------------------------------------------------------
(* C3 *)

\* the handlers that clear or replace the payload
ClearingOps == {"handleFileChange", "textarea.onChange", "clearImage", "clearFile"}

\* C3 as claimed: after every handler that clears or replaces the payload the
\* log is empty and no analyzer is mounted with a result.
C3_Original ==
    [][ ((op' \in ClearingOps) \/ (op' = "handleDrop" /\ ~app.isSyncing)) =>
            /\ app'.logs = <<>>
            /\ ~analyzer'.mounted
            /\ analyzer'.analysis = NullJson
      ]_vars

----------------------------------------------------------------------------
(* C4 *)

\* C4 as claimed: when a run has just finished, isSyncing is false,
\* syncCompleted is true and the log is the nine stage entries in script
\* order with their scripted statuses followed by one info entry about
\* session persistence.
C4_Original ==
    op = "run.finish" =>
        /\ ~app.isSyncing
        /\ app.syncCompleted
        /\ Len(app.logs) = NumSteps + 1
        /\ \A j \in 1..NumSteps :
              /\ app.logs[j].message[1] = steps[j].msg
              /\ app.logs[j].status = steps[j].status
        /\ app.logs[NumSteps + 1].status = "info"
        /\ app.logs[NumSteps + 1].message[1] \in PersistenceMsgs

----------------------------------------------------------------------------
(* C5 *)

\* C5 as claimed: image data and text content (file content or pasted
\* content) are never both present.
C5_Original ==
    ~(app.imageData # NullImage /\ (Truthy(app.fileContent) \/ Truthy(app.pastedContent)))

----------------------------------------------------------------------------
(* C6 *)

\* C6: a call of handleStartSync with no file content, no pasted content and
\* no image data changes neither App's state nor the runs: no entry is
\* appended and no run starts.
C6_RejectedWithoutPayload ==
    [][ (~hasData(app) /\ op' = "handleStartSync") => (app' = app /\ runs' = runs) ]_vars

\* C6 witness: handleStartSync was the last call, made with no payload and no
\* run in flight
C6_Witness ==
    /\ op = "handleStartSync"
    /\ ~hasData(app)
    /\ ~app.isSyncing
    /\ runs = <<>>

----------------------------------------------------------------------------
(* C7 *)

\* C7: handleAnalyze called with neither image data nor text content issues
\* no request and ends with the error set, no result and loading false.
C7_NoPayloadNoRequest ==
    [][ (NoAnalyzerPayload /\ op' = "handleAnalyze") =>
            /\ requests' = requests
            /\ analyzer'.error = ErrorMsg
            /\ analyzer'.analysis = NullJson
            /\ ~analyzer'.isLoading
      ]_vars

\* C7 witness: handleAnalyze has run without a payload
C7_Witness ==
    /\ op = "handleAnalyze"
    /\ NoAnalyzerPayload
    /\ analyzer.error = ErrorMsg
    /\ requests = <<>>

----------------------------------------------------------------------------
(* C8 *)

\* C8 as claimed: after a response was parsed without error and a result
\* stored, the result has description and tags when the payload is an image,
\* and dataType and summary when it is text.
C8_Original ==
    (op = "settle.parsed" /\ analyzer.error = Null /\ analyzer.analysis # NullJson) =>
        IF app.imageData # NullImage
        THEN analyzer.analysis.description # "absent" /\ analyzer.analysis.tags # Absent
        ELSE analyzer.analysis.dataType # "absent" /\ analyzer.analysis.summary # "absent"

----------------------------------------------------------------------------
(* C9 *)

\* C9 as claimed: the stored result never has more than 3 risks or more than
\* 5 tags.
C9_Original ==
    /\ analyzer.analysis.risks <= RiskLimit
    /\ analyzer.analysis.tags <= TagLimit

----------------------------------------------------------------------------
(* C10 *)

\* C10: when a request of the mounted analyzer has just failed (the promise
\* rejected, or the body was not JSON), the generic error message is set, no
\* result is stored, loading is false, and no request of this analyzer is in
\* flight: the next one needs a click on Retry.
C10_FailureEndsInError ==
    op = "settle.failed" =>
        /\ analyzer.error = ErrorMsg
        /\ analyzer.analysis = NullJson
        /\ ~analyzer.isLoading
        /\ renderContent(analyzer) = "error"
        /\ \A i \in 1..Len(requests) : ~requests[i].live

\* C10 witness: a request of the mounted analyzer has failed
C10_Witness ==
    /\ op = "settle.failed"
    /\ analyzer.mounted
    /\ analyzer.error = ErrorMsg

----------------------------------------------------------------------------
(* C11 *)

\* C11: when an update check resumes with a fetched commit and no sha is
\* stored, it stores the fetched sha and raises no notification; when a sha is
\* stored, it leaves the stored sha alone and raises a notification exactly
\* when the fetched sha differs from the stored one, and then exactly one.
C11_NotifiesExactlyOnDifference ==
    [][op' = "checkForUpdates.resumed" =>
          IF ~Truthy(storedSha)
          THEN /\ storedSha' = fetched'
               /\ raised' = 0
               /\ app'.showUpdateModal = app.showUpdateModal
          ELSE /\ storedSha' = storedSha
               /\ raised' = (IF fetched' # storedSha THEN 1 ELSE 0)
               /\ app'.showUpdateModal = (app.showUpdateModal \/ fetched' # storedSha)]_vars

\* a check after the first has fetched a sha other than the stored one and
\* raised its notification
C11_Witness ==
    /\ op = "checkForUpdates.resumed"
    /\ Truthy(storedSha) /\ fetched # storedSha
    /\ raised = 1 /\ app.showUpdateModal

----------------------------------------------------------------------------
(* C12 *)

\* C12 as claimed: from handleSnooze until the clock reaches snoozeUntil,
\* showUpdateModal is false, whatever update checks were in flight when
\* handleSnooze ran.
C12_Original == snoozed(app, now) => ~app.showUpdateModal

----------------------------------------------------------------------------
(* C13 *)

\* the timeouts armed for the inactivity timer are exactly one, held by
\* inactivityTimerRef and due at time due
OneTimerDue(t, due) ==
    \E x \in t.armed : /\ t.armed = {x}
                       /\ x.id = t.ref
                       /\ x.due = due

\* C13: while authenticated exactly one inactivity timeout is armed and the
\* clock has not passed its expiry, while logged out none is armed; a window
\* event restarts the countdown at the full timeout; a logout happens only
\* when the armed timeout has expired, and leaves no timeout armed that could
\* log out a second time.
C13_OneTimerOneLogout ==
    /\ [](/\ Cardinality(inactivity.armed) <= 1
          /\ app.isAuthenticated => \E x \in inactivity.armed : OneTimerDue(inactivity, x.due) /\ now <= x.due
          /\ ~app.isAuthenticated => inactivity.armed = {})
    /\ [][/\ op' = "eventHandler" => OneTimerDue(inactivity', now + INACTIVITY_TIMEOUT)
          /\ op' = "handleLogin" => OneTimerDue(inactivity', now + INACTIVITY_TIMEOUT)
          /\ op' = "handleLogout" => /\ app.isAuthenticated /\ ~app'.isAuthenticated
                                     /\ OneTimerDue(inactivity, now)
                                     /\ inactivity'.armed = {}
          /\ (app.isAuthenticated /\ ~app'.isAuthenticated) => op' \in {"handleLogout", "handleUpdateNow"}]_vars

\* the user was active after the login, then idle for the full timeout, and
\* has been logged out
C13_Witness ==
    /\ op = "handleLogout"
    /\ ~app.isAuthenticated
    /\ inactivity.armed = {}
    /\ inactivity.ref = 2
    /\ now = INACTIVITY_TIMEOUT + TickMs

----------------------------------------------------------------------------
(* C14 *)

\* the positions of the log's pending entries
PendingAt(entries) == {i \in 1..Len(entries) : entries[i].status = "pending"}

\* C14 as claimed: in every state at most one log entry is pending, and a
\* pending entry is the last entry of the log.
C14_Original ==
    /\ Cardinality(PendingAt(app.logs)) <= 1
    /\ \A i \in PendingAt(app.logs) : i = Len(app.logs)

----------------------------------------------------------------------------
(* C15 *)

\* every entry of the run's copy of the log is terminal
AllTerminal(entries) == \A i \in 1..Len(entries) : entries[i].status # "pending"

\* C15: when the sleeps of a run resolve, a state with isSyncing true leads to
\* one with isSyncing false; isSyncing falls, and a suspended run goes away,
\* only in the step that ends a run whose last stage is terminal, and that
\* step leaves no pending entry in the log.
C15_RunsFinish ==
    /\ app.isSyncing ~> ~app.isSyncing
    /\ [][((app.isSyncing /\ ~app'.isSyncing) \/ Len(runs') < Len(runs)) =>
            /\ op' = "run.finish"
            /\ \E i \in 1..Len(runs) : /\ runs' = RemoveAt(runs, i)
                                       /\ runs[i].stage = NumSteps
                                       /\ runs[i].phase = "delaying"
                                       /\ Len(runs[i].currentLogs) = NumSteps
                                       /\ AllTerminal(runs[i].currentLogs)
            /\ ~app'.isSyncing
            /\ PendingAt(app'.logs) = {}]_vars

\* a run has gone through its nine stages and ended
C15_Witness ==
    /\ op = "run.finish"
    /\ ~app.isSyncing
    /\ runs = <<>>
    /\ Len(app.logs) > NumSteps
    /\ PendingAt(app.logs) = {}

----------------------------------------------------------------------------
(* C16 *)

\* C16 as claimed: while isSyncing is false no step changes the log, except
\* the step that starts a run.
C16_Original ==
    [][~app.isSyncing => (app'.logs = app.logs \/ op' = "handleStartSync")]_vars

\* C16 as amended: while isSyncing is false the log is changed only by a
\* login (the log becomes the one entry of the successful authentication),
\* by the start of a file read or an edit of the pasted text (the log
\* becomes empty), by a failed file read (one error entry is appended) and
\* by the start of a run (the log becomes stage 1's pending entry).
C16_WritersOutsideRun ==
    [][(~app.isSyncing /\ app'.logs # app.logs) =>
          \/ /\ op' = "handleLogin"
             /\ Len(app'.logs) = 1
             /\ app'.logs[1].status = "success"
             /\ app'.logs[1].message[1] = "Authentication successful. VeilSync protocol engaged."
          \/ /\ op' \in {"handleFileChange", "handleDrop", "textarea.onChange"}
             /\ app'.logs = <<>>
          \/ /\ op' = "reader.onerror"
             /\ Len(app'.logs) = Len(app.logs) + 1
             /\ SubSeq(app'.logs, 1, Len(app.logs)) = app.logs
             /\ app'.logs[Len(app'.logs)].status = "error"
          \/ /\ op' = "handleStartSync"
             /\ app'.isSyncing
             /\ Shape(app'.logs) = ScriptShape(1, "registering", dataNameOf(app), dataSizeOf(app))]_vars

\* a file read has failed while no run was active and its error entry has
\* been appended to a log that already had an entry
C16_Witness ==
    /\ op = "reader.onerror"
    /\ ~app.isSyncing
    /\ Len(app.logs) > 1
    /\ app.logs[Len(app.logs)].status = "error"

----------------------------------------------------------------------------
(* C17 *)

\* the entry keeps its message, and its status unless it goes from pending
\* to a terminal status
SameOrSettled(before, after) ==
    /\ after.message = before.message
    /\ after.status = before.status \/ (before.status = "pending" /\ after.status # "pending")

\* C17 as claimed: in every step an entry found in the log before and after
\* keeps its message and either keeps its status or goes from pending to
\* terminal, and two such entries keep their order; the step that gives a
\* stage its terminal status keeps the log's length and changes no entry
\* but the one whose id it sought.
C17_Original ==
    [][/\ \A i \in 1..Len(app.logs), j \in 1..Len(app'.logs) :
              app.logs[i].id = app'.logs[j].id => SameOrSettled(app.logs[i], app'.logs[j])
       /\ \A i1, i2 \in 1..Len(app.logs), j1, j2 \in 1..Len(app'.logs) :
              (app.logs[i1].id = app'.logs[j1].id /\ app.logs[i2].id = app'.logs[j2].id /\ i1 < i2) => j1 < j2
       /\ op' = "stage.commit" =>
              /\ Len(app'.logs) = Len(app.logs)
              /\ \A i \in 1..Len(app.logs) :
                    \/ app'.logs[i] = app.logs[i]
                    \/ /\ app.logs[i].status = "pending"
                       /\ app'.logs[i].id = app.logs[i].id
                       /\ SameOrSettled(app.logs[i], app'.logs[i])]_vars

----------------------------------------------------------------------------
(* C18 *)

\* C18 as claimed: handleAnalyze called with neither image data nor text
\* content leaves isLoading, analysis and error as they were.
C18_Original ==
    [][(NoAnalyzerPayload /\ op' = "handleAnalyze") => analyzer' = analyzer]_vars

\* C18 as amended: handleAnalyze called with neither image data nor text
\* content issues no request and leaves isLoading and analysis as they were;
\* of the component's state only error changes, to the failure message.
C18_OnlyErrorChanges ==
    [][(NoAnalyzerPayload /\ op' = "handleAnalyze") =>
            /\ requests' = requests
            /\ analyzer'.isLoading = analyzer.isLoading
            /\ analyzer'.analysis = analyzer.analysis
            /\ analyzer'.mounted = analyzer.mounted
            /\ analyzer'.error = ErrorMsg]_vars

\* the request without a payload has been rejected: the error is shown, no
\* result is stored and nothing is loading
C18_Witness ==
    /\ op = "handleAnalyze"
    /\ NoAnalyzerPayload
    /\ analyzer.error = ErrorMsg
    /\ analyzer.analysis = NullJson
    /\ ~analyzer.isLoading

----------------------------------------------------------------------------
(* C19 *)

\* C19 as claimed: a stored result is rendered by the image panel when it
\* has a string description and an array tags, and by the text panel
\* otherwise, whichever request brought it.
C19_Original ==
    (analyzer.analysis # NullJson /\ analyzer.error = Null /\ ~analyzer.isLoading) =>
        renderContent(analyzer) = IF isImageAnalysis(analyzer.analysis) THEN "image" ELSE "text"

----------------------------------------------------------------------------
(* C20 *)

\* C20 as claimed: once a request has settled, whatever the response, the
\* component renders one of its panels and its render does not throw: a
\* result panel, the error panel with its retry button or, when the response
\* is the JSON value null and no result is stored, the initial panel with its
\* Analyze button.
C20_Original ==
    op \in {"settle.failed", "settle.parsed"} =>
        renderContent(analyzer) \in {"image", "text", "error", "initial"}

----------------------------------------------------------------------------
(* C21 *)

\* C21: handleAnalyze called with image data or non-empty text content adds
\* exactly one request to those in flight: the image request whenever image
\* data is present, whatever the text content, and the text request when
\* there is no image data.
C21_OneRequestOfTheVariant ==
    [][(op' = "handleAnalyze" /\ ~NoAnalyzerPayload) =>
          /\ Len(requests') = Len(requests) + 1
          /\ SubSeq(requests', 1, Len(requests)) = requests
          /\ requests'[Len(requests')].variant =
                 IF app.imageData # NullImage THEN "image" ELSE "text"
          /\ (requests'[Len(requests')].variant = "text") =>
                 (app.imageData = NullImage /\ Truthy(propsOf(app).textContent))]_vars

\* handleAnalyze has run with both image data and text content and its one
\* request is the image request
C21_Witness ==
    /\ op = "handleAnalyze"
    /\ app.imageData # NullImage
    /\ Truthy(propsOf(app).textContent)
    /\ Len(requests) = 1
    /\ requests[1].variant = "image"

----------------------------------------------------------------------------
(* C22 *)

\* C22: a check whose fetch is rejected or whose response is not ok changes
\* neither the stored sha nor App's state (snoozeUntil and showUpdateModal
\* among it), raises no notification and leaves the interval as it was: the
\* next check is still due at the time it was due before, which is not past.
C22_FailedCheckChangesNothing ==
    /\ [](now <= pollDue /\ pollDue <= now + UPDATE_CHECK_INTERVAL)
    /\ [][op' = "checkForUpdates.failed" =>
            /\ storedSha' = storedSha
            /\ app' = app
            /\ raised' = 0
            /\ pollDue' = pollDue
            /\ checks' = checks - 1]_vars

\* a check has failed while a sha was stored and a snooze deadline set
C22_Witness ==
    /\ op = "checkForUpdates.failed"
    /\ Truthy(storedSha)
    /\ app.snoozeUntil # NoSnooze

----------------------------------------------------------------------------
(* C23 *)

\* C23 as claimed: in every state where isAuthenticated is false after a
\* session of this page load, no inactivity timeout is armed and the update
\* interval starts no check.
C23_Original ==
    (~app.isAuthenticated /\ inactivity.ref # NoTimer) =>
        /\ inactivity.armed = {}
        /\ op \notin {"checkForUpdates", "checkForUpdates.snoozed"}

----------------------------------------------------------------------------
(* C24 *)

\* C24 as claimed: in every state where showAnalyzer is true and a payload is
\* present, syncCompleted is true and isSyncing is false.
C24_Original ==
    (app.showAnalyzer /\ hasData(app)) => (app.syncCompleted /\ ~app.isSyncing)

----------------------------------------------------------------------------
(* C25 *)

\* the payload a run processes and the analyzer is handed
payloadOf(s) == <<s.fileContent, s.pastedContent, s.imageData>>

\* C25 as claimed: the payload does not change while a run is in flight, and
\* a step that changes it leaves syncCompleted false, so that a payload
\* handed to the analyzer is the one the last completed run processed.
C25_Original ==
    [][payloadOf(app') # payloadOf(app) => (~app.isSyncing /\ ~app'.syncCompleted)]_vars

----------------------------------------------------------------------------
(* C26 *)

\* C26: in every state error and analysis are not both present, and while
\* isLoading is true both are absent; handleAnalyze called with a payload
\* leaves nothing of the previous outcome: isLoading true, no result, no
\* error.
C26_OneOutcomeAtATime ==
    /\ [](/\ ~(analyzer.error # Null /\ analyzer.analysis # NullJson)
          /\ analyzer.isLoading => (analyzer.error = Null /\ analyzer.analysis = NullJson))
    /\ [][(op' = "handleAnalyze" /\ ~NoAnalyzerPayload) =>
             analyzer' = [mounted |-> TRUE, isLoading |-> TRUE, analysis |-> NullJson, error |-> Null]]_vars

\* a retry from the error panel is loading: the error of the previous
\* attempt is gone
C26_Witness ==
    /\ op = "handleAnalyze"
    /\ analyzer.isLoading
    /\ analyzer.error = Null
    /\ analyzer.analysis = NullJson
    /\ Len(requests) = 1

----------------------------------------------------------------------------
(* C27 *)

\* C27 as claimed: in every state at most one generateContent call is
\* unsettled.
C27_Original == Len(requests) <= 1

----------------------------------------------------------------------------
(* C28 *)

\* the handlers that clear or replace the payload, and the toggle
UnblockingOps == {"handleLogin", "handleFileChange", "handleDrop", "textarea.onChange",
                  "clearImage", "clearFile", "reader.onerror", "setIsSessionPersistent"}

\* C28: from a state in which a run has completed and the session is
\* persistent, no step starts a run; the state is left only by a handler
\* that clears or replaces the payload, which resets syncCompleted, or by the
\* persistence toggle.
C28_PersistentBlocksRestart ==
    [][(app.syncCompleted /\ app.isSessionPersistent) =>
          /\ op' # "handleStartSync"
          /\ runs' = <<>>
          /\ ~app'.isSyncing
          /\ ~(app'.syncCompleted /\ app'.isSessionPersistent) =>
                /\ op' \in UnblockingOps
                /\ op' = "setIsSessionPersistent" \/ ~app'.syncCompleted]_vars

\* a run has completed with the persistent session on: there is a payload
\* and the Start Sync button is disabled
C28_Witness ==
    /\ op = "run.finish"
    /\ app.syncCompleted /\ app.isSessionPersistent
    /\ hasData(app)
    /\ ~app.isSyncing
    /\ startSyncDisabled(app)

----------------------------------------------------------------------------
(* C29 *)

\* C29: the stored sha changes only in the step of a resumed check that
\* found none stored, and becomes the sha that check fetched; once a sha is
\* stored no step changes it, and every resumed check that fetched another
\* sha sets showUpdateModal and raises its notification, however often that
\* happened before.
C29_StoredOnceNotifiedAgain ==
    [][/\ storedSha' # storedSha =>
             /\ ~Truthy(storedSha)
             /\ op' = "checkForUpdates.resumed"
             /\ storedSha' = fetched'
       /\ Truthy(storedSha) => storedSha' = storedSha
       /\ (op' = "checkForUpdates.resumed" /\ Truthy(storedSha) /\ fetched' # storedSha) =>
             /\ raised' = 1
             /\ app'.showUpdateModal]_vars

\* a notification was snoozed, the snooze deadline has passed, and a check
\* that still fetched a sha other than the stored one has raised the
\* notification again
C29_Witness ==
    /\ op = "checkForUpdates.resumed"
    /\ app.snoozeUntil # NoSnooze
    /\ ~snoozed(app, now)
    /\ fetched # storedSha
    /\ raised = 1
    /\ app.showUpdateModal

====
